---- MODULE Spec2Model ----
(***************************************************************************)
(* Plugin lifecycle and dynamic loading of zenoh-plugin-trait              *)
(* (plugins/zenoh-plugin-trait/src/loading.rs): PluginCondition, the       *)
(* static and dynamic plugin records, the compatibility gate of            *)
(* DynamicPluginStarter::get_vtable and the PluginsManager registry.       *)
(***************************************************************************)
EXTENDS Naturals, Sequences, FiniteSets, TLC

VARIABLES
    default_lib_prefix, \* PluginsManager.default_lib_prefix
    loader,             \* PluginsManager.loader : Option<LibLoader>
    plugins,            \* PluginsManager.plugins : Vec<Box<dyn DeclaredPlugin>>
    libs,               \* the libloading::Library handles that are open
    held,               \* the capability handle the caller borrows from the manager
    hist,               \* per record: what has been called on it so far
    last,               \* the last call: operation, record, result, record before it
    events              \* what the last call did outside the record, in order

vars == <<default_lib_prefix, loader, plugins, libs, held, hist, last, events>>

----------------------------------------------------------------------------
(* Bounds of the model *)

MaxPlugins == 2     \* records in the registry
MaxStarts == 2      \* start-routine invocations on one record between two stops

----------------------------------------------------------------------------
(* Option<T> *)

None == <<>>
Some(v) == <<v>>
is_some(o) == Len(o) = 1
is_none(o) == Len(o) = 0
unwrap(o) == o[1]

(* ZResult<T> *)
Ok(v) == [ok |-> TRUE, val |-> v]
Err(e) == [ok |-> FALSE, err |-> e]

\* what a call yields when it panics (Option::unwrap on None) or when the
\* process dies in it
Panic == [ok |-> FALSE, err |-> [kind |-> "Panic"]]
Crash == [ok |-> FALSE, err |-> [kind |-> "Crash"]]

----------------------------------------------------------------------------
(* The environment: the host's constants, the files on disk, the inputs *)

\* vtable::PLUGIN_LOADER_VERSION, the loader protocol of the host
PLUGIN_LOADER_VERSION == 1

\* Compatibility::new::<StartArgs, Instance>() of the host: a fingerprint
HostCompatibility == [start_args |-> "A1", instance |-> "I1"]

AllSymbols == {"get_plugin_loader_version", "get_compatibility", "load_plugin"}

\* The shared libraries on disk: path -> what the module exports.
\* A path outside the domain cannot be opened.
Files ==
    [p \in {"good.so", "old.so", "abi.so", "libzp.so", "libzq.so"} |->
        CASE p = "good.so" ->
               [symbols |-> AllSymbols, version |-> PLUGIN_LOADER_VERSION,
                compat |-> HostCompatibility]
          [] p = "libzp.so" ->
               [symbols |-> AllSymbols, version |-> PLUGIN_LOADER_VERSION,
                compat |-> HostCompatibility]
          [] p = "old.so" ->
               [symbols |-> AllSymbols, version |-> 0,
                compat |-> HostCompatibility]
          [] p = "abi.so" ->
               [symbols |-> AllSymbols, version |-> PLUGIN_LOADER_VERSION,
                compat |-> [start_args |-> "A2", instance |-> "I1"]]
          [] OTHER ->
               [symbols |-> AllSymbols \ {"load_plugin"},
                version |-> PLUGIN_LOADER_VERSION, compat |-> HostCompatibility]]

\* Inputs of the registry's operations
StaticNames == {"zp"}                   \* P::STATIC_NAME of the compiled-in plugins
PluginNames == {"p", "q"}               \* plugin_name of add_dynamic_plugin_by_name
NameArgs == {"zp", "r"}                 \* name of add_dynamic_plugin_by_name
PathsNames == {"zp"}                    \* name of add_dynamic_plugin_by_paths
PathLists == { <<"none.so", "good.so">>, <<"old.so", "good.so">>,
               <<"abi.so">>, <<"none.so", "gone.so", "lost.so">> }
LookupNames == {"zp", "zq", "p"}
StartArgs == {"a1", "a2"}

----------------------------------------------------------------------------
(* Errors and their rendering by Display. The source quotes plugin names   *)
(* with a backquote, written here as an apostrophe.                        *)

RECURSIVE JoinQuoted(_, _)
JoinQuoted(paths, i) ==
    IF i > Len(paths) THEN ""
    ELSE "\"" \o paths[i] \o "\""
         \o (IF i < Len(paths) THEN ", " ELSE "") \o JoinQuoted(paths, i + 1)

\* {:?} of a Vec<String>
DebugPaths(paths) == "[" \o JoinQuoted(paths, 1) \o "]"

Display(e) ==
    CASE e.kind = "VersionMismatch" ->
           "Plugin loader version mismatch: host = " \o ToString(e.host)
           \o ", plugin = " \o ToString(e.plugin)
      [] e.kind = "CompatibilityMismatch" ->
           "Plugin compatibility mismatch:\n\nHost:\n" \o e.host.start_args
           \o e.host.instance \o "\nPlugin:\n" \o e.plugin.start_args
           \o e.plugin.instance \o "\n"
      [] e.kind = "NotFoundIn" -> "Plugin not found in " \o DebugPaths(e.paths)
      [] e.kind = "SearchFailed" -> "Library file '" \o e.name \o "' not found"
      [] e.kind = "SymbolMissing" -> "undefined symbol: " \o e.symbol
      [] e.kind = "StartFailed" -> "start of " \o e.name \o " failed"
      [] e.kind = "NotLoaded" -> "Plugin '" \o e.name \o "' not loaded"
      [] e.kind = "NotRunning" -> "Plugin '" \o e.name \o "' is not running"
      [] e.kind = "NotFound" -> "Plugin '" \o e.name \o "' not found"
      [] e.kind = "Disabled" -> "Dynamic plugin loading is disabled"
      [] OTHER -> "called 'Option::unwrap()' on a 'None' value"

----------------------------------------------------------------------------
(* PluginCondition *)

PluginCondition_new == [warnings |-> <<>>, errors |-> <<>>]

clear(c) == [warnings |-> <<>>, errors |-> <<>>]

add_error(c, error) == [c EXCEPT !.errors = Append(@, error)]

add_warning(c, warning) == [c EXCEPT !.warnings = Append(@, warning)]

\* catch_error that keeps the diagnostics of earlier attempts
catch_error_noclear(c, r) ==
    IF r.ok THEN c ELSE add_error(c, Display(r.err))

\* catch_error that returns the error without recording it
catch_error_silent(c, r) == clear(c)

\* catch_error(f), given the result r of running f
catch_error(c, r) ==
    IF r.ok THEN clear(c) ELSE add_error(clear(c), Display(r.err))

----------------------------------------------------------------------------
(* What a call does outside the record: module opens, symbol calls, drops *)

Ev(what, arg) == [ev |-> what, arg |-> arg]

HasEv(evs, what) == \E k \in 1..Len(evs) : evs[k].ev = what

HasCall(evs, symbol) ==
    \E k \in 1..Len(evs) : evs[k].ev = "call" /\ evs[k].arg = symbol

\* position of the first call of symbol in evs, 0 when there is none
CallPos(evs, symbol) ==
    IF HasCall(evs, symbol)
    THEN CHOOSE k \in 1..Len(evs) :
            /\ evs[k].ev = "call" /\ evs[k].arg = symbol
            /\ \A j \in 1..(k - 1) : ~(evs[j].ev = "call" /\ evs[j].arg = symbol)
    ELSE 0

----------------------------------------------------------------------------
(* PluginState and the two kinds of record *)

StaticPlugin_new(static_name) ==
    [kind |-> "static", name |-> static_name, instance |-> None]

DynamicPlugin_new(name, source) ==
    [kind |-> "dynamic", name |-> name, condition |-> PluginCondition_new,
     source |-> source, starter |-> None, instance |-> None]

ByName(name) == [by |-> "name", name |-> name]
ByPaths(paths) == [by |-> "paths", paths |-> paths]

\* PluginInfo::path
path(p) ==
    IF p.kind = "static" THEN "<static>"
    ELSE IF is_some(p.starter) THEN unwrap(p.starter).path ELSE "<not loaded>"

\* PluginInfo::status
status(p) ==
    IF p.kind = "static"
    THEN [state |-> IF is_some(p.instance) THEN "Running" ELSE "Loaded",
          condition |-> PluginCondition_new]
    ELSE [state |-> IF is_some(p.starter)
                    THEN (IF is_some(p.instance) THEN "Running" ELSE "Loaded")
                    ELSE "Declared",
          condition |-> p.condition]

\* loaded / loaded_mut that yield a dynamic record only while it is idle
loaded_idle(p) ==
    IF p.kind = "static" THEN TRUE ELSE is_some(p.starter) /\ is_none(p.instance)

\* loaded / loaded_mut that yield the record whether or not it has a starter
loaded_always(p) == TRUE

\* DeclaredPlugin::loaded / loaded_mut: is the Loaded capability there
loaded(p) == IF p.kind = "static" THEN TRUE ELSE is_some(p.starter)

\* LoadedPlugin::running / running_mut: is the Running capability there
running(p) == is_some(p.instance)

----------------------------------------------------------------------------
(* DynamicPluginSource::load *)

CanOpen(file) == file \in DOMAIN Files

\* LibLoader::search_and_load: the one candidate file of a name
SearchFile(name) == "lib" \o name \o ".so"

search_and_load(name) ==
    IF CanOpen(SearchFile(name))
    THEN [res |-> Ok(SearchFile(name)),
          events |-> <<Ev("open", SearchFile(name))>>]
    ELSE [res |-> Err([kind |-> "SearchFailed", name |-> name]),
          events |-> <<Ev("open_failed", SearchFile(name))>>]

\* the loop over the candidate paths whose error names the last one only
RECURSIVE load_file_from_lastonly(_, _)
load_file_from_lastonly(paths, i) ==
    IF i > Len(paths)
    THEN [res |-> Err([kind |-> "NotFoundIn", paths |-> <<paths[Len(paths)]>>]),
          events |-> <<>>]
    ELSE IF CanOpen(paths[i])
    THEN [res |-> Ok(paths[i]), events |-> <<Ev("open", paths[i])>>]
    ELSE LET rest == load_file_from_lastonly(paths, i + 1)
         IN  [rest EXCEPT !.events =
                <<Ev("open_failed", paths[i]), Ev("log_warn", paths[i])>> \o @]

\* the loop over the candidate paths, from candidate i on
RECURSIVE load_file_from(_, _)
load_file_from(paths, i) ==
    IF i > Len(paths)
    THEN [res |-> Err([kind |-> "NotFoundIn", paths |-> paths]), events |-> <<>>]
    ELSE IF CanOpen(paths[i])
    THEN [res |-> Ok(paths[i]), events |-> <<Ev("open", paths[i])>>]
    ELSE LET rest == load_file_from(paths, i + 1)
         IN  [rest EXCEPT !.events =
                <<Ev("open_failed", paths[i]), Ev("log_warn", paths[i])>> \o @]

DynamicPluginSource_load(source) ==
    IF source.by = "name" THEN search_and_load(source.name)
    ELSE load_file_from(source.paths, 1)

----------------------------------------------------------------------------
(* DynamicPluginStarter: the compatibility gate *)

\* Compatibility::are_compatible
are_compatible(plugin_record, host_record) == plugin_record = host_record

\* lib.get(symbol)?
SymbolError(symbol) == Err([kind |-> "SymbolMissing", symbol |-> symbol])

\* get_vtable that reads the loader version without comparing it
get_vtable_anyversion(file) ==
    LET m == Files[file]
        v == Ev("call", "get_plugin_loader_version")
        c == Ev("call", "get_compatibility")
        l == Ev("call", "load_plugin")
    IN  IF ~are_compatible(m.compat, HostCompatibility)
        THEN [res |-> Err([kind |-> "CompatibilityMismatch",
                           host |-> HostCompatibility, plugin |-> m.compat]),
              events |-> <<v, c>>, passed |-> <<>>]
        ELSE IF "load_plugin" \notin m.symbols
        THEN [res |-> SymbolError("load_plugin"),
              events |-> <<v, c>>, passed |-> <<"compatibility">>]
        ELSE [res |-> Ok([start |-> file]),
              events |-> <<v, c, l>>, passed |-> <<"compatibility">>]

\* get_vtable that reads both records before it compares either
get_vtable_readfirst(file) ==
    LET m == Files[file]
        v == Ev("call", "get_plugin_loader_version")
        c == Ev("call", "get_compatibility")
        l == Ev("call", "load_plugin")
    IN  IF m.version # PLUGIN_LOADER_VERSION
        THEN [res |-> Err([kind |-> "VersionMismatch",
                           host |-> PLUGIN_LOADER_VERSION, plugin |-> m.version]),
              events |-> <<v, c>>, passed |-> <<>>]
        ELSE IF ~are_compatible(m.compat, HostCompatibility)
        THEN [res |-> Err([kind |-> "CompatibilityMismatch",
                           host |-> HostCompatibility, plugin |-> m.compat]),
              events |-> <<v, c>>, passed |-> <<"loader_version">>]
        ELSE IF "load_plugin" \notin m.symbols
        THEN [res |-> SymbolError("load_plugin"),
              events |-> <<v, c>>, passed |-> <<"loader_version", "compatibility">>]
        ELSE [res |-> Ok([start |-> file]),
              events |-> <<v, c, l>>,
              passed |-> <<"loader_version", "compatibility">>]

\* get_vtable that fetches the entry-point table before the compatibility check
get_vtable_tablefirst(file) ==
    LET m == Files[file]
        v == Ev("call", "get_plugin_loader_version")
        c == Ev("call", "get_compatibility")
        l == Ev("call", "load_plugin")
    IN  IF m.version # PLUGIN_LOADER_VERSION
        THEN [res |-> Err([kind |-> "VersionMismatch",
                           host |-> PLUGIN_LOADER_VERSION, plugin |-> m.version]),
              events |-> <<v>>, passed |-> <<>>]
        ELSE IF "load_plugin" \notin m.symbols
        THEN [res |-> SymbolError("load_plugin"),
              events |-> <<v>>, passed |-> <<"loader_version">>]
        ELSE IF ~are_compatible(m.compat, HostCompatibility)
        THEN [res |-> Err([kind |-> "CompatibilityMismatch",
                           host |-> HostCompatibility, plugin |-> m.compat]),
              events |-> <<v, l, c>>, passed |-> <<"loader_version">>]
        ELSE [res |-> Ok([start |-> file]),
              events |-> <<v, l, c>>,
              passed |-> <<"loader_version", "compatibility">>]

\* get_vtable on the module opened from file: the result, the calls made
\* into the module, and the checks the module passed
get_vtable(file) ==
    LET m == Files[file]
        v == Ev("call", "get_plugin_loader_version")
        c == Ev("call", "get_compatibility")
        l == Ev("call", "load_plugin")
    IN  IF "get_plugin_loader_version" \notin m.symbols
        THEN [res |-> SymbolError("get_plugin_loader_version"),
              events |-> <<>>, passed |-> <<>>]
        ELSE IF m.version # PLUGIN_LOADER_VERSION
        THEN [res |-> Err([kind |-> "VersionMismatch",
                           host |-> PLUGIN_LOADER_VERSION, plugin |-> m.version]),
              events |-> <<v>>, passed |-> <<>>]
        ELSE IF "get_compatibility" \notin m.symbols
        THEN [res |-> SymbolError("get_compatibility"),
              events |-> <<v>>, passed |-> <<"loader_version">>]
        ELSE IF ~are_compatible(m.compat, HostCompatibility)
        THEN [res |-> Err([kind |-> "CompatibilityMismatch",
                           host |-> HostCompatibility, plugin |-> m.compat]),
              events |-> <<v, c>>, passed |-> <<"loader_version">>]
        ELSE IF "load_plugin" \notin m.symbols
        THEN [res |-> SymbolError("load_plugin"),
              events |-> <<v, c>>, passed |-> <<"loader_version", "compatibility">>]
        ELSE [res |-> Ok([start |-> file]),
              events |-> <<v, c, l>>,
              passed |-> <<"loader_version", "compatibility">>]

\* DynamicPluginStarter::new(lib, path): on an error of get_vtable the
\* library handle it was given is dropped
DynamicPluginStarter_new(lib, file) ==
    LET vt == get_vtable(file)
    IN  IF vt.res.ok
        THEN [res |-> Ok([lib |-> lib, path |-> file, vtable |-> vt.res.val]),
              events |-> vt.events, passed |-> vt.passed]
        ELSE [res |-> vt.res,
              events |-> Append(vt.events, Ev("drop_lib", ToString(lib))),
              passed |-> vt.passed]

\* the handle of the next Library that is opened
NewLib == CHOOSE n \in 1..(Cardinality(DOMAIN libs) + 1) : n \notin DOMAIN libs

\* the closure that DynamicPlugin::load hands to catch_error
load_closure(p) ==
    LET src == DynamicPluginSource_load(p.source)
    IN  IF ~src.res.ok
        THEN [res |-> src.res, events |-> src.events, passed |-> <<>>]
        ELSE LET st == DynamicPluginStarter_new(NewLib, src.res.val)
             IN  [res |-> st.res, events |-> src.events \o st.events,
                  passed |-> st.passed]

\* DynamicPlugin::load that caches the module as soon as it is opened
DynamicPlugin_load_nogate(p) ==
    LET src == DynamicPluginSource_load(p.source)
        c == load_closure(p)
    IN  IF is_none(p.starter)
        THEN [res |-> IF c.res.ok THEN Ok("loaded") ELSE c.res,
              rec |-> [p EXCEPT !.condition = catch_error(@, c.res),
                                !.starter =
                                   IF src.res.ok
                                   THEN Some([lib |-> NewLib, path |-> src.res.val,
                                              vtable |-> [start |-> src.res.val]])
                                   ELSE @],
              events |-> c.events,
              opened |-> src.res.ok,
              passed |-> c.passed]
        ELSE [res |-> Ok("loaded"), rec |-> p, events |-> <<>>, opened |-> FALSE,
              passed |-> <<>>]

\* DynamicPlugin::load that resolves and opens the module on every call
DynamicPlugin_load_always(p) ==
    LET c == load_closure(p)
    IN  [res |-> IF c.res.ok THEN Ok("loaded") ELSE c.res,
         rec |-> [p EXCEPT !.condition = catch_error(@, c.res),
                           !.starter = IF c.res.ok THEN Some(c.res.val) ELSE @],
         events |-> c.events,
         opened |-> c.res.ok,
         passed |-> c.passed]

\* DynamicPlugin::load: the result, the record after it, what it did
DynamicPlugin_load(p) ==
    IF is_none(p.starter)
    THEN LET c == load_closure(p)
         IN  [res |-> IF c.res.ok THEN Ok("loaded") ELSE c.res,
              rec |-> [p EXCEPT !.condition = catch_error(@, c.res),
                                !.starter = IF c.res.ok THEN Some(c.res.val) ELSE @],
              events |-> c.events,
              opened |-> c.res.ok,
              passed |-> c.passed]
    ELSE [res |-> Ok("loaded"), rec |-> p, events |-> <<>>, opened |-> FALSE,
          passed |-> <<>>]

\* StaticPlugin::load
StaticPlugin_load(p) ==
    [res |-> Ok("loaded"), rec |-> p, events |-> <<>>, opened |-> FALSE,
     passed |-> <<>>]

----------------------------------------------------------------------------
(* run and stop *)

\* the start routine of a plugin: it succeeds or fails as the plugin decides
start(name, args, lib, start_ok) ==
    IF start_ok THEN Ok([plugin |-> name, args |-> args, lib |-> lib])
    ELSE Err([kind |-> "StartFailed", name |-> name])

\* StaticPlugin::run
StaticPlugin_run(p, args, start_ok) ==
    IF is_none(p.instance)
    THEN LET r == start(p.name, args, 0, start_ok)
         IN  [res |-> IF r.ok THEN Ok("running") ELSE r,
              rec |-> IF r.ok THEN [p EXCEPT !.instance = Some(r.val)] ELSE p,
              events |-> <<Ev("start", "<static>")>>]
    ELSE [res |-> Ok("running"), rec |-> p, events |-> <<>>]

\* the closure of DynamicPlugin::run without the already_running test
run_closure_restart(p, args, start_ok) ==
    IF is_none(p.starter)
    THEN [res |-> Err([kind |-> "NotLoaded", name |-> p.name]),
          instance |-> p.instance, events |-> <<>>]
    ELSE LET r == start(p.name, args, unwrap(p.starter).lib, start_ok)
         IN  [res |-> r,
              instance |-> IF r.ok THEN Some(r.val) ELSE p.instance,
              events |-> <<Ev("start", unwrap(p.starter).vtable.start)>>]

\* the closure that DynamicPlugin::run hands to catch_error
run_closure(p, args, start_ok) ==
    IF is_none(p.starter)
    THEN [res |-> Err([kind |-> "NotLoaded", name |-> p.name]),
          instance |-> p.instance, events |-> <<>>]
    ELSE IF is_some(p.instance)
    THEN [res |-> Ok("unit"), instance |-> p.instance, events |-> <<>>]
    ELSE LET r == start(p.name, args, unwrap(p.starter).lib, start_ok)
         IN  [res |-> r,
              instance |-> IF r.ok THEN Some(r.val) ELSE p.instance,
              events |-> <<Ev("start", unwrap(p.starter).vtable.start)>>]

\* DynamicPlugin::run that unloads the module when the start routine fails
DynamicPlugin_run_unload(p, args, start_ok) ==
    LET c == run_closure(p, args, start_ok)
    IN  [res |-> IF c.res.ok THEN Ok("running") ELSE c.res,
         rec |-> [p EXCEPT !.condition = catch_error(@, c.res),
                           !.instance = c.instance,
                           !.starter = IF c.res.ok THEN @ ELSE None],
         events |-> c.events]

\* DynamicPlugin::run
DynamicPlugin_run(p, args, start_ok) ==
    LET c == run_closure(p, args, start_ok)
    IN  [res |-> IF c.res.ok THEN Ok("running") ELSE c.res,
         rec |-> [p EXCEPT !.condition = catch_error(@, c.res),
                           !.instance = c.instance],
         events |-> c.events]

\* StaticPlugin::stop
StaticPlugin_stop(p) == p

\* a stop that unloads the module as well
DynamicPlugin_stop_unload(p) == [p EXCEPT !.instance = None, !.starter = None]

\* a stop that discards the starter and keeps the instance
DynamicPlugin_stop_starter(p) == [p EXCEPT !.starter = None]

\* DynamicPlugin::stop
DynamicPlugin_stop(p) == [p EXCEPT !.instance = None]

----------------------------------------------------------------------------
(* PluginsManager *)

Handle(index, cap) == Some([idx |-> index, cap |-> cap])

\* the history of a record that was just added:
\*   load_called, load_ok  a load() was called on it, a load() returned Ok
\*   stopped               a stop() was called on it
\*   starts, started       invocations and successes of the start routine
\*                         since the last stop() (since it was added, if none)
NoHistory ==
    [load_called |-> FALSE, load_ok |-> FALSE, stopped |-> FALSE,
     starts |-> 0, started |-> 0]

\* pre and hist: the record and its history before the call, when it has one
Call(op, index, arg, ret, pre, h) ==
    [op |-> op, idx |-> index, arg |-> arg, ret |-> ret, pre |-> pre, hist |-> h]

\* the manager exists and no call has panicked
Alive == last.op # "drop" /\ last.ret # Panic

\* get_plugin_index that answers the last record of that name
get_plugin_index_last(name) ==
    IF \E i \in 1..Len(plugins) : plugins[i].name = name
    THEN CHOOSE i \in 1..Len(plugins) :
            /\ plugins[i].name = name
            /\ \A j \in (i + 1)..Len(plugins) : plugins[j].name # name
    ELSE 0

\* get_plugin_index: the position of the first record of that name, 0 for None
get_plugin_index(name) ==
    IF \E i \in 1..Len(plugins) : plugins[i].name = name
    THEN CHOOSE i \in 1..Len(plugins) :
            /\ plugins[i].name = name
            /\ \A j \in 1..(i - 1) : plugins[j].name # name
    ELSE 0

\* get_plugin_index_err that reports a missing record as a record not loaded
get_plugin_index_err_notloaded(name) ==
    IF get_plugin_index(name) # 0 THEN Ok(get_plugin_index(name))
    ELSE Err([kind |-> "NotLoaded", name |-> name])

get_plugin_index_err(name) ==
    IF get_plugin_index(name) # 0 THEN Ok(get_plugin_index(name))
    ELSE Err([kind |-> "NotFound", name |-> name])

\* plugin / plugin_mut
plugin(name) == get_plugin_index_err(name)

\* loaded_plugin / loaded_plugin_mut
loaded_plugin(name) ==
    IF ~plugin(name).ok THEN plugin(name)
    ELSE IF loaded(plugins[plugin(name).val]) THEN plugin(name)
    ELSE Err([kind |-> "NotLoaded", name |-> name])

\* running_plugin that reports a record not running as a record not loaded
running_plugin_notloaded(name) ==
    IF ~loaded_plugin(name).ok THEN loaded_plugin(name)
    ELSE IF running(plugins[loaded_plugin(name).val]) THEN loaded_plugin(name)
    ELSE Err([kind |-> "NotLoaded", name |-> name])

\* running_plugin / running_plugin_mut
running_plugin(name) ==
    IF ~loaded_plugin(name).ok THEN loaded_plugin(name)
    ELSE IF running(plugins[loaded_plugin(name).val]) THEN loaded_plugin(name)
    ELSE Err([kind |-> "NotRunning", name |-> name])

\* plugins / plugins_mut: the positions of the records, in iteration order
all_plugins == [i \in 1..Len(plugins) |-> i]

\* loaded_plugins / loaded_plugins_mut
loaded_plugins == SelectSeq(all_plugins, LAMBDA i : loaded(plugins[i]))

\* running_plugins / running_plugins_mut
running_plugins == SelectSeq(loaded_plugins, LAMBDA i : running(plugins[i]))

\* PluginsManager::dynamic and PluginsManager::static_plugins_only
Init ==
    /\ \/ default_lib_prefix = "z" /\ loader = Some("LibLoader")
       \/ default_lib_prefix = "" /\ loader = None
    /\ plugins = <<>>
    /\ libs = <<>>
    /\ held = None
    /\ hist = <<>>
    /\ last = Call("new", 0, "", Ok("manager"), None, None)
    /\ events = <<>>

AddStaticPlugin(static_name) ==
    /\ Alive
    /\ Len(plugins) < MaxPlugins
    /\ plugins' = Append(plugins, StaticPlugin_new(static_name))
    /\ hist' = Append(hist, NoHistory)
    /\ held' = None
    /\ last' = Call("add_static_plugin", Len(plugins) + 1, static_name,
                    Ok("manager"), None, None)
    /\ events' = <<>>
    /\ UNCHANGED <<default_lib_prefix, loader, libs>>

\* add_dynamic_plugin_by_name that registers the record under its name argument
AddDynamicPluginByName_named(name, plugin_name) ==
    LET full_name == default_lib_prefix \o plugin_name
    IN  /\ Alive
        /\ IF is_none(loader)
           THEN /\ last' = Call("add_dynamic_plugin_by_name", 0,
                                [name |-> name, plugin_name |-> plugin_name],
                                Err([kind |-> "Disabled"]), None, None)
                /\ held' = None
                /\ UNCHANGED <<plugins, hist>>
           ELSE /\ Len(plugins) < MaxPlugins
                /\ plugins' = Append(plugins,
                                     DynamicPlugin_new(name, ByName(full_name)))
                /\ hist' = Append(hist, NoHistory)
                /\ held' = Handle(Len(plugins) + 1, "declared")
                /\ last' = Call("add_dynamic_plugin_by_name", Len(plugins) + 1,
                                [name |-> name, plugin_name |-> plugin_name],
                                Ok("declared"), None, None)
        /\ events' = <<>>
        /\ UNCHANGED <<default_lib_prefix, loader, libs>>

AddDynamicPluginByName(name, plugin_name) ==
    LET full_name == default_lib_prefix \o plugin_name
    IN  /\ Alive
        /\ IF is_none(loader)
           THEN /\ last' = Call("add_dynamic_plugin_by_name", 0,
                                [name |-> name, plugin_name |-> plugin_name],
                                Err([kind |-> "Disabled"]), None, None)
                /\ held' = None
                /\ UNCHANGED <<plugins, hist>>
           ELSE /\ Len(plugins) < MaxPlugins
                /\ plugins' = Append(plugins,
                                     DynamicPlugin_new(full_name, ByName(full_name)))
                /\ hist' = Append(hist, NoHistory)
                /\ held' = Handle(Len(plugins) + 1, "declared")
                /\ last' = Call("add_dynamic_plugin_by_name", Len(plugins) + 1,
                                [name |-> name, plugin_name |-> plugin_name],
                                Ok("declared"), None, None)
        /\ events' = <<>>
        /\ UNCHANGED <<default_lib_prefix, loader, libs>>

AddDynamicPluginByPaths(name, paths) ==
    /\ Alive
    /\ Len(plugins) < MaxPlugins
    /\ plugins' = Append(plugins, DynamicPlugin_new(name, ByPaths(paths)))
    /\ hist' = Append(hist, NoHistory)
    /\ held' = Handle(Len(plugins) + 1, "declared")
    /\ last' = Call("add_dynamic_plugin_by_paths", Len(plugins) + 1, name,
                    Ok("declared"), None, None)
    /\ events' = <<>>
    /\ UNCHANGED <<default_lib_prefix, loader, libs>>

\* a lookup by name: the handle it yields, or its error
Lookup(op, name, r, cap) ==
    /\ Alive
    /\ held' = IF r.ok THEN Handle(r.val, cap) ELSE None
    /\ last' = Call(op, IF r.ok THEN r.val ELSE 0, name,
                    IF r.ok THEN Ok(cap) ELSE r, None, None)
    /\ events' = <<>>
    /\ UNCHANGED <<default_lib_prefix, loader, plugins, libs, hist>>

PluginMut(name) == Lookup("plugin", name, plugin(name), "declared")

LoadedPluginMut(name) == Lookup("loaded_plugin", name, loaded_plugin(name), "loaded")

RunningPluginMut(name) ==
    Lookup("running_plugin", name, running_plugin(name), "running")

\* plugins_mut: the caller takes record i from the iterator
PluginsMut(i) ==
    /\ Alive
    /\ i \in 1..Len(plugins)
    /\ held' = Handle(i, "declared")
    /\ last' = Call("plugins", i, "", Ok("declared"), None, None)
    /\ events' = <<>>
    /\ UNCHANGED <<default_lib_prefix, loader, plugins, libs, hist>>

----------------------------------------------------------------------------
(* The calls made through the handle the caller holds *)

Holds(cap) == Alive /\ is_some(held) /\ unwrap(held).cap = cap

HeldIdx == unwrap(held).idx

HeldRec == plugins[HeldIdx]

HeldHist == hist[HeldIdx]

\* DeclaredPlugin::load
Load ==
    /\ Holds("declared")
    /\ LET r == IF HeldRec.kind = "static" THEN StaticPlugin_load(HeldRec)
                ELSE DynamicPlugin_load(HeldRec)
       IN  /\ plugins' = [plugins EXCEPT ![HeldIdx] = r.rec]
           /\ libs' = IF r.opened
                      THEN [n \in DOMAIN libs \cup {NewLib} |->
                              IF n = NewLib
                              THEN [path |-> unwrap(r.rec.starter).path,
                                    passed |-> r.passed]
                              ELSE libs[n]]
                      ELSE libs
           /\ held' = IF r.res.ok THEN Handle(HeldIdx, "loaded") ELSE held
           /\ hist' = [hist EXCEPT ![HeldIdx].load_called = TRUE,
                                    ![HeldIdx].load_ok = @ \/ r.res.ok]
           /\ last' = Call("load", HeldIdx, "", r.res, Some(HeldRec), Some(HeldHist))
           /\ events' = r.events
    /\ UNCHANGED <<default_lib_prefix, loader>>

\* DeclaredPlugin::loaded_mut
LoadedMut ==
    /\ Holds("declared")
    /\ held' = IF loaded(HeldRec) THEN Handle(HeldIdx, "loaded") ELSE held
    /\ last' = Call("loaded", HeldIdx, "",
                    IF loaded(HeldRec) THEN Ok("loaded") ELSE Ok("none"), None, None)
    /\ events' = <<>>
    /\ UNCHANGED <<default_lib_prefix, loader, plugins, libs, hist>>

\* LoadedPlugin::run
Run(args, start_ok) ==
    /\ Holds("loaded")
    /\ LET r == IF HeldRec.kind = "static" THEN StaticPlugin_run(HeldRec, args, start_ok)
                ELSE DynamicPlugin_run(HeldRec, args, start_ok)
       IN  /\ HasEv(r.events, "start") => HeldHist.starts < MaxStarts
           /\ plugins' = [plugins EXCEPT ![HeldIdx] = r.rec]
           /\ hist' = IF HasEv(r.events, "start")
                       THEN [hist EXCEPT ![HeldIdx].starts = @ + 1,
                                         ![HeldIdx].started =
                                            IF r.res.ok THEN @ + 1 ELSE @]
                       ELSE hist
           /\ held' = IF r.res.ok THEN Handle(HeldIdx, "running") ELSE held
           /\ last' = Call("run", HeldIdx, args, r.res, Some(HeldRec), Some(HeldHist))
           /\ events' = r.events
    /\ UNCHANGED <<default_lib_prefix, loader, libs>>

\* LoadedPlugin::running_mut
RunningMut ==
    /\ Holds("loaded")
    /\ held' = IF running(HeldRec) THEN Handle(HeldIdx, "running") ELSE held
    /\ last' = Call("running", HeldIdx, "",
                    IF running(HeldRec) THEN Ok("running") ELSE Ok("none"), None, None)
    /\ events' = <<>>
    /\ UNCHANGED <<default_lib_prefix, loader, plugins, libs, hist>>

\* RunningPlugin::stop
Stop ==
    /\ Holds("running")
    /\ plugins' = [plugins EXCEPT ![HeldIdx] =
                     IF HeldRec.kind = "static" THEN StaticPlugin_stop(HeldRec)
                     ELSE DynamicPlugin_stop(HeldRec)]
    /\ hist' = [hist EXCEPT ![HeldIdx].stopped = TRUE,
                            ![HeldIdx].starts = 0, ![HeldIdx].started = 0]
    /\ last' = Call("stop", HeldIdx, "", Ok("unit"), Some(HeldRec), Some(HeldHist))
    /\ events' = <<>>
    /\ UNCHANGED <<default_lib_prefix, loader, libs, held>>

\* RunningPlugin::instance / instance_mut
Instance ==
    /\ Holds("running")
    /\ last' = Call("instance", HeldIdx, "",
                    IF is_some(HeldRec.instance) THEN Ok("instance") ELSE Panic,
                    Some(HeldRec), Some(HeldHist))
    /\ held' = IF is_some(HeldRec.instance) THEN held ELSE None
    /\ events' = <<>>
    /\ UNCHANGED <<default_lib_prefix, loader, plugins, libs, hist>>

\* what dropping one record does, field after field in declaration order:
\* a dynamic record drops its starter (whose first field is the Library)
\* and then its instance
drop_record(p) ==
    IF p.kind = "static"
    THEN (IF is_some(p.instance) THEN <<Ev("drop_instance", "0")>> ELSE <<>>)
    ELSE (IF is_some(p.starter)
          THEN <<Ev("drop_lib", ToString(unwrap(p.starter).lib))>> ELSE <<>>)
         \o (IF is_some(p.instance)
             THEN <<Ev("drop_instance", ToString(unwrap(p.instance).lib))>>
             ELSE <<>>)

\* dropping the Vec of records, from record i on
RECURSIVE drop_from(_)
drop_from(i) ==
    IF i > Len(plugins) THEN <<>> ELSE drop_record(plugins[i]) \o drop_from(i + 1)

\* an instance is dropped after the library that produced it was dropped
DropsInstanceAfterLib(evs) ==
    \E j, k \in 1..Len(evs) :
        /\ j < k
        /\ evs[j].ev = "drop_lib" /\ evs[k].ev = "drop_instance"
        /\ evs[j].arg = evs[k].arg

\* the caller drops the manager and with it every record; running the
\* destructor of an instance whose library is unloaded is undefined
\* behaviour: it goes unnoticed or the process dies
DropManager(dies) ==
    /\ Alive
    /\ dies => DropsInstanceAfterLib(drop_from(1))
    /\ events' = drop_from(1)
    /\ plugins' = <<>>
    /\ libs' = <<>>
    /\ hist' = <<>>
    /\ held' = None
    /\ last' = Call("drop", 0, "", IF dies THEN Crash ELSE Ok("unit"), None, None)
    /\ UNCHANGED <<default_lib_prefix, loader>>

Next ==
    \/ \E n \in StaticNames : AddStaticPlugin(n)
    \/ \E n \in NameArgs, pn \in PluginNames : AddDynamicPluginByName(n, pn)
    \/ \E n \in PathsNames, ps \in PathLists : AddDynamicPluginByPaths(n, ps)
    \/ \E n \in LookupNames : PluginMut(n)
    \/ \E n \in LookupNames : LoadedPluginMut(n)
    \/ \E n \in LookupNames : RunningPluginMut(n)
    \/ \E i \in 1..MaxPlugins : PluginsMut(i)
    \/ Load
    \/ LoadedMut
    \/ \E a \in StartArgs, ok \in BOOLEAN : Run(a, ok)
    \/ RunningMut
    \/ Stop
    \/ Instance
    \/ \E dies \in BOOLEAN : DropManager(dies)

Spec == Init /\ [][Next]_vars

----------------------------------------------------------------------------
(* Vocabulary of the properties *)

Recs == 1..Len(plugins)

IsDynamic(i) == plugins[i].kind = "dynamic"

IsStatic(i) == plugins[i].kind = "static"

Phase(i) == status(plugins[i]).state

\* the record the last call was made on: now, and before the call
LastRec == plugins[last.idx]

LastPre == unwrap(last.pre)

LastHist == unwrap(last.hist)

LastIs(op) == last.op = op

LastDynamic(op) == last.op = op /\ LastPre.kind = "dynamic"

\* the last call was a load() on a dynamic record that had no starter
LastFreshLoad == LastDynamic("load") /\ is_none(LastPre.starter)

\* the last call opened a module; the file it opened
Opened == HasEv(events, "open")

OpenedFile == events[CHOOSE k \in 1..Len(events) : events[k].ev = "open"].arg

VersionOk(file) == Files[file].version = PLUGIN_LOADER_VERSION

CompatOk(file) == are_compatible(Files[file].compat, HostCompatibility)

\* the last call was a load() whose opened module failed the gate
LastGateFailed ==
    LastFreshLoad /\ Opened /\ (~VersionOk(OpenedFile) \/ ~CompatOk(OpenedFile))

\* the handles of the libraries the last call dropped
DroppedLibs == { events[k].arg : k \in { j \in 1..Len(events) : events[j].ev = "drop_lib" } }

----------------------------------------------------------------------------
(* C1 *)

\* C1 as claimed: every record, static or dynamic, reports Declared until
\* the first load() call on it, and after a load() that returned an error.
C1_DeclaredUntilLoad_EveryKind ==
    /\ \A i \in Recs : ~hist[i].load_called => Phase(i) = "Declared"
    /\ LastIs("load") /\ ~last.ret.ok => Phase(last.idx) = "Declared"

\* C1 amended: every dynamic record reports Declared from the moment it is
\* added until a load() call on it succeeds, so before the first load() and
\* after every load() that returned an error; a static record never reports
\* Declared: it reports Loaded from the moment it is added, and its load()
\* cannot fail.
C1_DeclaredUntilLoad ==
    /\ \A i \in Recs :
          IF IsDynamic(i)
          THEN /\ ~hist[i].load_called => Phase(i) = "Declared"
               /\ ~hist[i].load_ok => Phase(i) = "Declared"
          ELSE /\ Phase(i) # "Declared"
               /\ is_none(plugins[i].instance) => Phase(i) = "Loaded"
    /\ LastIs("load") /\ ~last.ret.ok => IsDynamic(last.idx) /\ Phase(last.idx) = "Declared"

\* a load() on a dynamic record has just failed and the record is Declared
C1_Witness ==
    /\ LastDynamic("load") /\ ~last.ret.ok
    /\ hist[last.idx].load_called
    /\ Phase(last.idx) = "Declared"

----------------------------------------------------------------------------
(* C2 *)

\* C2: a dynamic record that is Loaded or Running holds a library handle of
\* its own, opened from its path, on which the loader-version check and then
\* the compatibility check were run and passed in the load() that cached it,
\* before the entry-point table was fetched; the start entry point is only
\* invoked on such a module.
C2_GatePassedBeforeCached ==
    /\ \A i \in Recs : IsDynamic(i) /\ is_some(plugins[i].starter) =>
          LET st == unwrap(plugins[i].starter)
          IN  /\ st.lib \in DOMAIN libs
              /\ libs[st.lib].path = st.path
              /\ libs[st.lib].passed = <<"loader_version", "compatibility">>
              /\ VersionOk(st.path) /\ CompatOk(st.path)
              /\ st.vtable.start = st.path
              /\ \A j \in Recs : j # i /\ IsDynamic(j) /\ is_some(plugins[j].starter)
                    => unwrap(plugins[j].starter).lib # st.lib
    /\ LastFreshLoad /\ last.ret.ok =>
          /\ Opened /\ OpenedFile = unwrap(LastRec.starter).path
          /\ 0 < CallPos(events, "get_plugin_loader_version")
          /\ CallPos(events, "get_plugin_loader_version")
                < CallPos(events, "get_compatibility")
          /\ CallPos(events, "get_compatibility") < CallPos(events, "load_plugin")
    /\ \A k \in 1..Len(events) : events[k].ev = "start" /\ LastDynamic("run") =>
          /\ is_some(LastPre.starter)
          /\ events[k].arg = unwrap(LastPre.starter).path
          /\ VersionOk(events[k].arg) /\ CompatOk(events[k].arg)

\* a dynamic record is Running: its start entry point has just been invoked
C2_Witness ==
    /\ LastDynamic("run") /\ last.ret.ok /\ HasEv(events, "start")
    /\ Phase(last.idx) = "Running"

----------------------------------------------------------------------------
(* C3 *)

\* C3: a load() that reads a loader version different from the host's is
\* rejected, and get_compatibility and load_plugin are not called in it.
C3_VersionMismatchRejectedFirst ==
    LastFreshLoad /\ Opened /\ ~VersionOk(OpenedFile) =>
        /\ ~last.ret.ok
        /\ last.ret.err.kind = "VersionMismatch"
        /\ HasCall(events, "get_plugin_loader_version")
        /\ ~HasCall(events, "get_compatibility")
        /\ ~HasCall(events, "load_plugin")

\* a load() has just opened a module of another loader version
C3_Witness ==
    LastFreshLoad /\ Opened /\ ~VersionOk(OpenedFile) /\ ~last.ret.ok

----------------------------------------------------------------------------
(* C4 *)

\* C4: a load() that judges the module's compatibility record incompatible
\* is rejected, and load_plugin is not called in it.
C4_IncompatibleRejectedBeforeTable ==
    LastFreshLoad /\ Opened /\ ~CompatOk(OpenedFile) =>
        /\ ~last.ret.ok
        /\ ~HasCall(events, "load_plugin")
        /\ VersionOk(OpenedFile) =>
              /\ last.ret.err.kind = "CompatibilityMismatch"
              /\ HasCall(events, "get_compatibility")

\* a load() has just judged a module of the right loader version incompatible
C4_Witness ==
    /\ LastFreshLoad /\ Opened /\ VersionOk(OpenedFile) /\ ~CompatOk(OpenedFile)
    /\ ~last.ret.ok /\ HasCall(events, "get_compatibility")

----------------------------------------------------------------------------
(* C5 *)

\* C5: when the gate fails in a load(), load() returns an error, the library
\* opened in that call is dropped and not cached, the starter stays absent,
\* path() stays "<not loaded>", the condition holds exactly one error, the
\* rendering of the returned one, and status() reports Declared.
C5_GateFailureReleasesModule ==
    LastGateFailed =>
        /\ ~last.ret.ok
        /\ Cardinality(DroppedLibs) = 1
        /\ \A n \in DOMAIN libs : ToString(n) \notin DroppedLibs
        /\ is_none(LastRec.starter)
        /\ path(LastRec) = "<not loaded>"
        /\ LastRec.condition.errors = <<Display(last.ret.err)>>
        /\ Phase(last.idx) = "Declared"

\* the gate has just failed in a load() on a record whose earlier load() failed too
C5_Witness ==
    /\ LastGateFailed
    /\ LastPre.condition.errors # <<>>
    /\ DroppedLibs # {}

----------------------------------------------------------------------------
(* C6 *)

\* C6: load() on a dynamic record that has a starter returns success, opens
\* no module, calls nothing in any module, and leaves the record as it was:
\* path(), starter, instance and phase.
C6_LoadIdempotent ==
    LastDynamic("load") /\ is_some(LastPre.starter) =>
        /\ last.ret.ok
        /\ events = <<>>
        /\ path(LastRec) = path(LastPre)
        /\ LastRec.starter = LastPre.starter
        /\ LastRec.instance = LastPre.instance
        /\ status(LastRec).state = status(LastPre).state
        /\ LastRec = LastPre

\* load() has just been called on a Running dynamic record
C6_Witness ==
    /\ LastDynamic("load") /\ is_some(LastPre.starter) /\ is_some(LastPre.instance)
    /\ last.ret.ok

----------------------------------------------------------------------------
(* C7 *)

\* run() while running: it succeeds, the start routine is not invoked, the
\* record keeps its instance
RunWhileRunningIsNoOp ==
    LastIs("run") /\ is_some(LastPre.instance) =>
        /\ last.ret.ok
        /\ ~HasEv(events, "start")
        /\ LastRec.instance = LastPre.instance

\* C7 as claimed: run() is idempotent while running, for static and dynamic
\* records, and between two consecutive stops the start routine is invoked
\* at most once.
C7_StartInvokedOncePerStop ==
    /\ RunWhileRunningIsNoOp
    /\ LastIs("stop") /\ LastHist.stopped => LastHist.starts <= 1

\* C7 amended: run() is idempotent while running, for static and dynamic
\* records: run(args) on a record that has an instance returns success
\* without invoking the start routine and the record keeps the same
\* instance. The start routine is invoked only on a record without an
\* instance, so between two consecutive stops it succeeds at most once, and
\* it is invoked again only after every earlier invocation failed.
C7_RunIdempotent ==
    /\ RunWhileRunningIsNoOp
    /\ LastIs("run") /\ HasEv(events, "start") =>
          /\ is_none(LastPre.instance)
          /\ LastHist.started = 0
    /\ \A i \in Recs : hist[i].started <= 1
    /\ LastIs("stop") => LastHist.started <= 1

\* run() with other arguments has just been called on a Running dynamic
\* record, next to a static record that is Running
C7_Witness ==
    /\ LastDynamic("run") /\ is_some(LastPre.instance)
    /\ unwrap(LastPre.instance).args # last.arg
    /\ LastRec.instance = LastPre.instance
    /\ \E i \in Recs : IsStatic(i) /\ Phase(i) = "Running"

----------------------------------------------------------------------------
(* C8 *)

\* C8: after stop() on a static or dynamic record the record has no
\* instance, running() is absent and status() reports Loaded; a stop() on a
\* record without instance changes nothing.
C8_StopDiscardsInstance ==
    LastIs("stop") =>
        /\ is_none(LastRec.instance)
        /\ ~running(LastRec)
        /\ Phase(last.idx) = "Loaded"
        /\ is_none(LastPre.instance) => LastRec = LastPre

----------------------------------------------------------------------------
(* C9 *)

\* C9: stop() on a dynamic record keeps the starter and path(); a run(args)
\* on a stopped dynamic record invokes the start entry point of the cached
\* starter and does nothing else (no module is opened, no gate symbol is
\* called), keeps the starter and path(), and on success the instance is the
\* one that call started.
C9_RestartUsesCachedStarter ==
    /\ LastDynamic("stop") =>
          /\ is_some(LastPre.starter)
          /\ LastRec.starter = LastPre.starter
          /\ path(LastRec) = path(LastPre)
    /\ LastDynamic("run") /\ LastHist.stopped /\ is_none(LastPre.instance) =>
          /\ is_some(LastPre.starter)
          /\ events = <<Ev("start", unwrap(LastPre.starter).vtable.start)>>
          /\ LastRec.starter = LastPre.starter
          /\ path(LastRec) = path(LastPre)
          /\ last.ret.ok =>
                LastRec.instance =
                    Some([plugin |-> LastPre.name, args |-> last.arg,
                          lib |-> unwrap(LastPre.starter).lib])
          /\ ~last.ret.ok => is_none(LastRec.instance)

\* the first run() after a stop() has just restarted a dynamic record
C9_Witness ==
    /\ LastDynamic("run") /\ LastHist.stopped /\ LastHist.starts = 0
    /\ last.ret.ok
    /\ Phase(last.idx) = "Running"

----------------------------------------------------------------------------
(* C10 *)

\* C10: when the start entry point fails in run(args) on a Loaded dynamic
\* record, run() returns that error, the record has no instance and reports
\* Loaded, the starter and path() are unchanged, and the condition contains
\* the rendering of the error.
C10_StartFailureLeavesLoaded ==
    LastDynamic("run") /\ HasEv(events, "start") /\ ~last.ret.ok =>
        /\ status(LastPre).state = "Loaded"
        /\ last.ret.err.kind = "StartFailed"
        /\ is_none(LastRec.instance)
        /\ Phase(last.idx) = "Loaded"
        /\ LastRec.starter = LastPre.starter
        /\ path(LastRec) = path(LastPre)
        /\ \E k \in 1..Len(LastRec.condition.errors) :
              LastRec.condition.errors[k] = Display(last.ret.err)

\* the start entry point has just failed on a Loaded dynamic record
C10_Witness ==
    /\ LastDynamic("run") /\ HasEv(events, "start") /\ ~last.ret.ok
    /\ status(LastPre).state = "Loaded"
    /\ LastRec.condition.errors # <<>>

----------------------------------------------------------------------------
(* C11 *)

\* the last call was a load() on an unloaded record declared by paths
LastPathsLoad == LastFreshLoad /\ LastPre.source.by = "paths"

\* the candidates the last call tried to open, in the order it tried them
Attempted ==
    LET tries == SelectSeq(events, LAMBDA e : e.ev \in {"open", "open_failed"})
    IN  [k \in 1..Len(tries) |-> tries[k].arg]

\* the first candidate of paths that can be opened, 0 when none can
FirstOpenable(paths) ==
    IF \E k \in 1..Len(paths) : CanOpen(paths[k])
    THEN CHOOSE k \in 1..Len(paths) :
            CanOpen(paths[k]) /\ \A j \in 1..(k - 1) : ~CanOpen(paths[j])
    ELSE 0

\* a load() by paths whose first openable candidate passes the gate
\* succeeds with that candidate as path(), having tried the candidates
\* before it in list order and none after it
FirstOpenedWins ==
    LastPathsLoad /\ Opened /\ VersionOk(OpenedFile) /\ CompatOk(OpenedFile) =>
        LET paths == LastPre.source.paths
            k == FirstOpenable(paths)
        IN  /\ last.ret.ok
            /\ k > 0
            /\ path(LastRec) = paths[k]
            /\ Attempted = SubSeq(paths, 1, k)

\* C11: ByPaths resolution tries the candidates in list order and stops at
\* the first that opens; when that one passes the gate, load() succeeds,
\* path() is that candidate, no later candidate is attempted, and the
\* condition holds one warning for each earlier candidate that failed.
C11_FirstOpenedWinsWithWarnings ==
    /\ FirstOpenedWins
    /\ LastPathsLoad /\ last.ret.ok =>
          Len(LastRec.condition.warnings)
              = FirstOpenable(LastPre.source.paths) - 1

----------------------------------------------------------------------------
(* C12 *)

\* C12: when no candidate of a ByPaths record can be opened, load() tried
\* them all in order and returns an error that names all the candidate
\* paths; the condition holds the rendering of that error and the record
\* stays Declared.
C12_AllCandidatesFail ==
    LastPathsLoad /\ ~Opened =>
        /\ ~last.ret.ok
        /\ last.ret.err.kind = "NotFoundIn"
        /\ last.ret.err.paths = LastPre.source.paths
        /\ Attempted = LastPre.source.paths
        /\ LastRec.condition.errors = <<Display(last.ret.err)>>
        /\ LastPre.source.paths = <<"none.so", "gone.so", "lost.so">> =>
              LastRec.condition.errors
                = <<"Plugin not found in [\"none.so\", \"gone.so\", \"lost.so\"]">>
        /\ Phase(last.idx) = "Declared"

\* a load() has just failed to open each of three candidates
C12_Witness ==
    /\ LastPathsLoad /\ ~Opened
    /\ Len(LastPre.source.paths) = 3
    /\ Len(Attempted) = 3
    /\ ~last.ret.ok

----------------------------------------------------------------------------
(* C13 *)

\* a listing yields positions of the registry in insertion order
InInsertionOrder(listing) ==
    /\ \A a \in 1..Len(listing) : listing[a] \in Recs
    /\ \A a, b \in 1..Len(listing) : a < b => listing[a] < listing[b]

\* C13 as claimed: loaded_plugins() yields exactly the records on which a
\* load() call has succeeded, in insertion order.
C13_LoadedListing_LoadSucceeded ==
    /\ InInsertionOrder(loaded_plugins)
    /\ \A i \in Recs :
          (\E a \in 1..Len(loaded_plugins) : loaded_plugins[a] = i) <=> hist[i].load_ok

\* C13 amended: loaded_plugins() yields, in insertion order, exactly the
\* dynamic records on which a load() call has succeeded and every static
\* record, whether or not load() was ever called on it.
C13_LoadedListing ==
    /\ InInsertionOrder(loaded_plugins)
    /\ \A i \in Recs :
          (\E a \in 1..Len(loaded_plugins) : loaded_plugins[a] = i)
              <=> (IsStatic(i) \/ hist[i].load_ok)

\* of two dynamic records the first failed to load and the second, loaded,
\* run and stopped, is the only one listed
C13_Witness ==
    /\ Len(plugins) = 2 /\ IsDynamic(1) /\ IsDynamic(2)
    /\ hist[1].load_called /\ ~hist[1].load_ok
    /\ hist[2].load_ok /\ hist[2].stopped
    /\ loaded_plugins = <<2>>

----------------------------------------------------------------------------
(* C14 *)

\* where a listing yields record i, 0 when it does not
PosIn(listing, i) ==
    IF \E a \in 1..Len(listing) : listing[a] = i
    THEN CHOOSE a \in 1..Len(listing) : listing[a] = i
    ELSE 0

\* C14: every record that running_plugins() yields, and every record whose
\* running() is present, is yielded by loaded_plugins(); the two listings
\* yield their common records in the same relative order, which is the
\* insertion order.
C14_RunningWithinLoaded ==
    /\ \A a \in 1..Len(running_plugins) : PosIn(loaded_plugins, running_plugins[a]) > 0
    /\ \A i \in Recs : running(plugins[i]) =>
          PosIn(loaded_plugins, i) > 0 /\ PosIn(running_plugins, i) > 0
    /\ \A a, b \in 1..Len(running_plugins) : a < b =>
          PosIn(loaded_plugins, running_plugins[a])
              < PosIn(loaded_plugins, running_plugins[b])
    /\ InInsertionOrder(running_plugins)

\* a dynamic and another record are both listed as loaded and as running
C14_Witness ==
    /\ Len(plugins) = 2
    /\ loaded_plugins = <<1, 2>>
    /\ running_plugins = <<1, 2>>
    /\ IsDynamic(1)

----------------------------------------------------------------------------
(* C15 *)

LookupOps == {"plugin", "loaded_plugin", "running_plugin"}

Unregistered(name) == \A i \in Recs : plugins[i].name # name

NotFound(name) == Err([kind |-> "NotFound", name |-> name])

\* the three lookups of a name that no record has answer NotFound, and the
\* lookup that was just made returned exactly that and yielded no handle
NotFoundAlike ==
    /\ \A name \in LookupNames : Unregistered(name) =>
          /\ plugin(name) = NotFound(name)
          /\ loaded_plugin(name) = NotFound(name)
          /\ running_plugin(name) = NotFound(name)
          /\ Display(NotFound(name).err) = "Plugin '" \o name \o "' not found"
          /\ Display(NotFound(name).err) # Display([kind |-> "NotLoaded", name |-> name])
          /\ Display(NotFound(name).err) # Display([kind |-> "NotRunning", name |-> name])
    /\ last.op \in LookupOps /\ Unregistered(last.arg) =>
          /\ last.ret = NotFound(last.arg)
          /\ is_none(held)

\* a lookup, failed or not, leaves the registry as it was
LookupKeepsRegistry ==
    last'.op \in LookupOps =>
        UNCHANGED <<plugins, libs, hist, loader, default_lib_prefix>>

\* C15: for a name that no registered record has, plugin, loaded_plugin and
\* running_plugin all fail with the NotFound error, never with the not-loaded
\* or the not-running error, and the registry is unchanged.
C15_UnregisteredNameNotFound == []NotFoundAlike /\ [][LookupKeepsRegistry]_vars

\* running_plugin has just been asked for a name that no record has, in a
\* registry that has records
C15_Witness ==
    /\ LastIs("running_plugin") /\ Unregistered(last.arg)
    /\ Len(plugins) > 0
    /\ ~last.ret.ok

----------------------------------------------------------------------------
(* C16 *)

NotLoaded(name) == Err([kind |-> "NotLoaded", name |-> name])

NotRunning(name) == Err([kind |-> "NotRunning", name |-> name])

\* C16: for a name whose record is registered but not loaded, plugin succeeds
\* while loaded_plugin and running_plugin both fail with the "not loaded"
\* error; for a record that is loaded but not running, loaded_plugin succeeds
\* and running_plugin fails with the distinct "is not running" error.
C16_WrongPhaseLookups ==
    /\ \A name \in LookupNames : ~Unregistered(name) =>
          LET i == get_plugin_index(name)
          IN  /\ plugin(name) = Ok(i)
              /\ Phase(i) = "Declared" =>
                    /\ loaded_plugin(name) = NotLoaded(name)
                    /\ running_plugin(name) = NotLoaded(name)
              /\ Phase(i) = "Loaded" =>
                    /\ loaded_plugin(name) = Ok(i)
                    /\ running_plugin(name) = NotRunning(name)
              /\ Display(NotLoaded(name).err) = "Plugin '" \o name \o "' not loaded"
              /\ Display(NotRunning(name).err)
                    = "Plugin '" \o name \o "' is not running"
              /\ Display(NotRunning(name).err) # Display(NotLoaded(name).err)
    /\ last.op \in LookupOps /\ ~Unregistered(last.arg) =>
          LET i == get_plugin_index(last.arg)
          IN  /\ last.op = "plugin" => last.ret.ok
              /\ last.op # "plugin" /\ Phase(i) = "Declared" =>
                    last.ret = NotLoaded(last.arg) /\ is_none(held)
              /\ last.op = "loaded_plugin" /\ Phase(i) = "Loaded" => last.ret.ok
              /\ last.op = "running_plugin" /\ Phase(i) = "Loaded" =>
                    last.ret = NotRunning(last.arg) /\ is_none(held)

\* running_plugin has just failed on a dynamic record that is loaded and was
\* stopped
C16_Witness ==
    /\ LastIs("running_plugin") /\ ~Unregistered(last.arg)
    /\ IsDynamic(get_plugin_index(last.arg))
    /\ Phase(get_plugin_index(last.arg)) = "Loaded"
    /\ hist[get_plugin_index(last.arg)].stopped
    /\ last.ret = NotRunning(last.arg)

----------------------------------------------------------------------------
(* C17, C18 *)

InSeq(x, seq) == \E k \in 1..Len(seq) : seq[k] = x

\* C17 as claimed: whenever load() or run() on a static or dynamic record
\* returns an error to the caller, the status().condition of that record read
\* right afterwards has a rendering of that error in its errors list.
C17_ErrorReturnedAndRecorded ==
    (LastIs("load") \/ LastIs("run")) /\ ~last.ret.ok =>
        InSeq(Display(last.ret.err), status(LastRec).condition.errors)

\* C18 as claimed: no sequence of public operations panics; instance() and
\* instance_mut() through a running-capability handle obtained from run() do
\* not panic, also after stop() was called through that handle.
C18_NoOperationPanics == last.ret # Panic

----------------------------------------------------------------------------
(* C19, C20 *)

\* the module of a dynamic instance is the open module of the record's starter
InstanceModuleOpen(i) ==
    is_some(plugins[i].instance) =>
        /\ is_some(plugins[i].starter)
        /\ unwrap(plugins[i].instance).lib = unwrap(plugins[i].starter).lib
        /\ unwrap(plugins[i].instance).lib \in DOMAIN libs
        /\ ToString(unwrap(plugins[i].instance).lib) \notin DroppedLibs

\* C19 as claimed: the loaded-module handle of a dynamic record is never
\* released while the instance it produced still exists, across every
\* load/run/stop sequence and during destruction of the record, where the
\* instance is released before the module handle.
C19_ModuleOutlivesInstance ==
    /\ \A i \in Recs : IsDynamic(i) => InstanceModuleOpen(i)
    /\ ~DropsInstanceAfterLib(events)
    /\ last.ret # Crash

AddDynamicOps == {"add_dynamic_plugin_by_name", "add_dynamic_plugin_by_paths"}

\* C20 as claimed: in a registry made with static_plugins_only(), every
\* attempt to add a dynamic plugin, by name or by paths, fails with the
\* error "Dynamic plugin loading is disabled" and leaves the plugin list
\* unchanged, so no dynamic record is ever loaded from such a registry.
C20_StaticOnlyRefusesDynamic ==
    is_none(loader) =>
        /\ last.op \in AddDynamicOps =>
              /\ last.ret = Err([kind |-> "Disabled"])
              /\ Display(last.ret.err) = "Dynamic plugin loading is disabled"
              /\ last.idx = 0
        /\ \A i \in Recs : ~IsDynamic(i)

----------------------------------------------------------------------------
(* C21 *)

\* what catch_error leaves in a condition for the result the caller got
ConditionOf(ret) ==
    [warnings |-> <<>>,
     errors |-> IF ret.ok THEN <<>> ELSE <<Display(ret.err)>>]

NoAccumulation ==
    \A i \in Recs : IsDynamic(i) => Len(plugins[i].condition.errors) <= 1

\* C21 as claimed: after any load() or run() call on a dynamic record the
\* condition holds only the diagnostics of that call, none if it succeeded,
\* so at most one error and nothing of earlier calls.
C21_ConditionOfLatestCall ==
    /\ NoAccumulation
    /\ LastDynamic("load") \/ LastDynamic("run") =>
          LastRec.condition.errors = ConditionOf(last.ret).errors

\* C21: a dynamic record's condition never accumulates. It holds at most one
\* error: after a run(), or a load() on a record that had no starter, only
\* the diagnostics of that call, none if it succeeded. A load() on a record
\* that is loaded, and a stop(), leave the condition as it was.
C21_ConditionOfLatestAttempt ==
    /\ NoAccumulation
    /\ LastDynamic("run") \/ LastFreshLoad =>
          LastRec.condition.errors = ConditionOf(last.ret).errors
    /\ LastDynamic("load") /\ is_some(LastPre.starter) =>
          LastRec.condition = LastPre.condition
    /\ LastDynamic("stop") => LastRec.condition = LastPre.condition

\* a run() that succeeded on a dynamic record whose condition held the error
\* of an earlier run()
C21_Witness ==
    /\ LastDynamic("run") /\ last.ret.ok
    /\ Len(LastPre.condition.errors) = 1
    /\ LastRec.condition.errors = <<>>

----------------------------------------------------------------------------
(* C22 *)

\* the records that are in the registry before and after a step
Kept == { i \in Recs : i <= Len(plugins') }

PhaseAfter(i) == status(plugins'[i]).state

\* a step never takes a record back to Declared, and takes it from Running
\* to Loaded only when the step is a stop() on that record
ForwardOnly ==
    \A i \in Kept :
        /\ Phase(i) # "Declared" => PhaseAfter(i) # "Declared"
        /\ Phase(i) = "Running" /\ PhaseAfter(i) = "Loaded" =>
              last'.op = "stop" /\ last'.idx = i
        /\ Phase(i) = "Running" /\ PhaseAfter(i) # "Running" =>
              PhaseAfter(i) = "Loaded"

\* C22: phase transitions of a record are forward-only except Running to
\* Loaded on stop(): once status() has reported Loaded or Running it never
\* reports Declared again, whatever load/run/stop calls follow, failed ones
\* included, and the phase changes from Running to Loaded only as the effect
\* of stop().
C22_ForwardOnlyPhases == [][ForwardOnly]_vars

\* a run() has just failed on a dynamic record that was stopped before, and
\* the record is still Loaded
C22_Witness ==
    /\ LastDynamic("run") /\ ~last.ret.ok
    /\ LastHist.stopped
    /\ Phase(last.idx) = "Loaded"

----------------------------------------------------------------------------
(* C23 *)

\* C23: in every reachable state of a dynamic record, the presence of an
\* instance implies the presence of a starter: no sequence of load/run/stop
\* calls, successful or failed, yields a record that has an instance and no
\* loaded module.
C23_InstanceImpliesStarter ==
    /\ \A i \in Recs :
          IsDynamic(i) /\ is_some(plugins[i].instance) => is_some(plugins[i].starter)
    /\ LastDynamic("run") /\ last.ret.ok =>
          is_some(LastPre.starter) /\ is_some(LastRec.starter)
    /\ (LastDynamic("stop") \/ LastDynamic("load")) /\ is_some(LastPre.starter) =>
          is_some(LastRec.starter)

\* a dynamic record is running again after a stop() and a failed run()
C23_Witness ==
    \E i \in Recs :
        /\ IsDynamic(i)
        /\ is_some(plugins[i].instance) /\ is_some(plugins[i].starter)
        /\ hist[i].stopped
        /\ hist[i].starts = 2

----------------------------------------------------------------------------
(* C24 *)

AddOps == AddDynamicOps \cup {"add_static_plugin"}

Named(name) == { i \in Recs : plugins[i].name = name }

\* the earliest-inserted record of that name
Earliest(name) == CHOOSE i \in Named(name) : \A j \in Named(name) : i <= j

\* what the three lookups answer for a name that has records
LookupsJudgeEarliest ==
    \A name \in LookupNames : Named(name) # {} =>
        LET f == Earliest(name)
        IN  /\ plugin(name) = Ok(f)
            /\ loaded_plugin(name)
                  = IF loaded(plugins[f]) THEN Ok(f) ELSE NotLoaded(name)
            /\ running_plugin(name)
                  = IF ~loaded(plugins[f]) THEN NotLoaded(name)
                    ELSE IF running(plugins[f]) THEN Ok(f)
                    ELSE NotRunning(name)

\* the lookup that was just made yielded a handle on the earliest record
LookupYieldsEarliest ==
    last.op \in LookupOps /\ last.ret.ok =>
        /\ is_some(held)
        /\ unwrap(held).idx = Earliest(last.arg)
        /\ last.idx = Earliest(last.arg)

\* an insertion appends one record, whatever names the registry has, and
\* a step other than the drop of the registry keeps every record in place
KeepsEveryRecord ==
    last'.op # "drop" =>
        /\ Len(plugins') >= Len(plugins)
        /\ \A i \in Recs : /\ plugins'[i].name = plugins[i].name
                           /\ plugins'[i].kind = plugins[i].kind
        /\ last'.op \in AddOps /\ last'.ret.ok =>
              /\ Len(plugins') = Len(plugins) + 1
              /\ last'.idx = Len(plugins')

\* C24: the registry keeps every inserted record, records of duplicate names
\* included, and a lookup by name resolves to the earliest-inserted record of
\* that name: plugin, loaded_plugin and running_plugin judge presence and
\* phase on that record only, so loaded_plugin(name) answers "not loaded"
\* when the first record is not loaded even if a later one of that name is.
C24_FirstMatchLookup ==
    /\ [](LookupsJudgeEarliest /\ LookupYieldsEarliest)
    /\ [][KeepsEveryRecord]_vars

\* loaded_plugin has just answered "not loaded" for a name whose first
\* record is Declared and whose second record is loaded
C24_Witness ==
    /\ LastIs("loaded_plugin")
    /\ Named(last.arg) = {1, 2}
    /\ Phase(1) = "Declared"
    /\ loaded(plugins[2])
    /\ last.ret = NotLoaded(last.arg)

----------------------------------------------------------------------------
(* C25 *)

LastAdded(op) == last.op = op /\ last.ret.ok

\* the record that add_dynamic_plugin_by_name or add_dynamic_plugin_by_paths
\* has just returned is the last one, Declared, and nothing was opened or
\* called to make it
DeclaredOnly ==
    last.op \in AddDynamicOps /\ last.ret.ok =>
        /\ events = <<>>
        /\ last.idx = Len(plugins)
        /\ is_some(held) /\ unwrap(held) = [idx |-> Len(plugins), cap |-> "declared"]
        /\ IsDynamic(last.idx)
        /\ Phase(last.idx) = "Declared"
        /\ path(LastRec) = "<not loaded>"
        /\ status(LastRec).condition = PluginCondition_new
        /\ is_none(LastRec.starter) /\ is_none(LastRec.instance)

\* the name of the record of add_dynamic_plugin_by_name(name, plugin_name)
PrefixedName ==
    LastAdded("add_dynamic_plugin_by_name") =>
        LastRec.name = default_lib_prefix \o last.arg.plugin_name

\* C25 as claimed: declaring a dynamic plugin executes no plugin code and
\* opens no module; the record is appended last, Declared, with path
\* "<not loaded>" and an empty condition; after
\* add_dynamic_plugin_by_name(name, plugin_name) its name is default_lib_prefix
\* followed by plugin_name, the key under which plugin() finds it.
C25_DeclaredUnderPrefixedName ==
    /\ DeclaredOnly
    /\ PrefixedName
    /\ LastAdded("add_dynamic_plugin_by_name") =>
          plugin(default_lib_prefix \o last.arg.plugin_name) = Ok(last.idx)

\* C25: as above, where plugin() under that key finds the earliest record of
\* that name: the new record when no earlier record has the name, the
\* earlier record otherwise. The name argument is not a key of the new
\* record.
C25_DeclaredUnderPrefixedNameFirstMatch ==
    /\ DeclaredOnly
    /\ PrefixedName
    /\ LastAdded("add_dynamic_plugin_by_name") =>
          LET key == default_lib_prefix \o last.arg.plugin_name
          IN  /\ plugin(key) = Ok(Earliest(key))
              /\ Named(key) = {last.idx} => plugin(key) = Ok(last.idx)
              /\ Named(key) # {last.idx} => plugin(key).val < last.idx
              /\ last.arg.name # key => plugin(last.arg.name) # Ok(last.idx)
              /\ last.arg.name # key /\ Named(last.arg.name) = {} =>
                    plugin(last.arg.name) = NotFound(last.arg.name)

\* add_dynamic_plugin_by_name("r", ..) has just added the second record, the
\* only one of its name, next to a record that is loaded
C25_Witness ==
    /\ LastAdded("add_dynamic_plugin_by_name")
    /\ last.arg.name = "r"
    /\ last.idx = 2
    /\ Named(LastRec.name) = {2}
    /\ loaded(plugins[1])

====
